---- MODULE Spec2Model ----
(***************************************************************************)
(* The chess game-session engine of the daydreams examples:                *)
(*   - chessHandler.execute (commands new / move) over the ambient map     *)
(*     `games` from gameId to a chess.js game;                             *)
(*   - ChessProcessor.process (analyze / chat / hint), the recommendation  *)
(*     pipeline around one completion call;                                *)
(*   - the WebSocket gateway, whose message handlers are async functions   *)
(*     suspended at the completion call.                                   *)
(*   - playChess, the terminal loop of a human against the engine, and     *)
(*     playMatch, the loop of two automated players with its guard         *)
(*     against repeated moves.                                             *)
(* chess.js is an external library.  It is represented by a finite         *)
(* fragment of its position graph: every node is a state of a chess.js     *)
(* game and carries the predicates chess.js computes for it.               *)
(***************************************************************************)
EXTENDS Integers, Sequences, FiniteSets, TLC

(***************************************************************************)
(* Bounds                                                                  *)
(***************************************************************************)
\* longest move history a session is driven to
MaxPly == 3

GameIds == {"game1", "game2"}

(***************************************************************************)
(* The board oracle (chess.js)                                             *)
(***************************************************************************)
Nodes == {"p0", "p1", "p2", "p3", "chk", "mate", "stale", "fifty",
          "rep", "rep0", "kk", "kk2", "q1", "q2", "r1", "solo"}

StartNode == "p0"

\* game.moves(): the legal moves of a position, in the oracle's order
Moves(n) ==
    CASE n = "p0"    -> <<"a3", "e4", "Nf3">>
      [] n = "p1"    -> <<"Qg7", "Qh4#">>
      [] n = "p2"    -> <<"Nc6", "Nxe4", "a3", "e5">>
      [] n = "p3"    -> <<"Kxb2", "Nf6", "a3">>
      [] n = "chk"   -> <<"Ke2", "c3">>
      [] n = "fifty" -> <<"Bb4+", "Kf8", "d5">>
      [] n = "rep"   -> <<"Ng1", "e4">>
      [] n = "rep0"  -> <<"Ng1", "e4">>
      [] n = "kk"    -> <<"Ka1">>
      [] n = "kk2"   -> <<"Kb2">>
      [] n = "q1"    -> <<"Nxe4", "Qxd4", "c3", "Bb4+">>
      [] n = "q2"    -> <<"Nxe4", "e4">>
      [] n = "r1"    -> <<"Qxd4">>
      [] n = "solo"  -> <<"Qxd4">>
      [] OTHER       -> << >>

\* the position a legal move leads to
Succ(n, m) ==
    CASE n = "p0"    /\ m = "a3"   -> "p1"
      [] n = "p0"    /\ m = "e4"   -> "p2"
      [] n = "p0"    /\ m = "Nf3"  -> "p3"
      [] n = "p1"    /\ m = "Qg7"  -> "stale"
      [] n = "p1"    /\ m = "Qh4#" -> "mate"
      [] n = "p2"    /\ m = "Nc6"  -> "fifty"
      [] n = "p2"    /\ m = "a3"   -> "p1"
      [] n = "p2"    /\ m = "e5"   -> "p3"
      [] n = "p3"    /\ m = "Kxb2" -> "kk"
      [] n = "p3"    /\ m = "Nf6"  -> "rep"
      [] n = "p3"    /\ m = "a3"   -> "p1"
      [] n = "chk"   /\ m = "Ke2"  -> "p3"
      [] n = "chk"   /\ m = "c3"   -> "p2"
      [] n = "fifty" /\ m = "Bb4+" -> "chk"
      [] n = "fifty" /\ m = "Kf8"  -> "fifty"
      [] n = "fifty" /\ m = "d5"   -> "p3"
      [] n = "rep"   /\ m = "Ng1"  -> "p3"
      [] n = "rep"   /\ m = "e4"   -> "p2"
      [] n = "rep0"  /\ m = "Ng1"  -> "p3"
      [] n = "rep0"  /\ m = "e4"   -> "p2"
      [] n = "kk"    /\ m = "Ka1"  -> "kk2"
      [] n = "kk2"   /\ m = "Kb2"  -> "kk"
      [] n = "p2"    /\ m = "Nxe4" -> "q1"
      [] n = "q1"    /\ m = "Nxe4" -> "q2"
      [] n = "q1"    /\ m = "Qxd4" -> "r1"
      [] n = "q1"    /\ m = "c3"   -> "q2"
      [] n = "q1"    /\ m = "Bb4+" -> "chk"
      [] n = "q2"    /\ m = "Nxe4" -> "q1"
      [] n = "q2"    /\ m = "e4"   -> "q1"
      [] n = "r1"    /\ m = "Qxd4" -> "solo"
      [] n = "solo"  /\ m = "Qxd4" -> "q2"
      [] OTHER                     -> n

\* game.isCheck()
IsCheck(n) == n \in {"chk", "mate"}

\* the half-move clock of the position
HalfMoves(n) == IF n = "fifty" THEN 100 ELSE 0

IsInsufficientMaterial(n) == n \in {"kk", "kk2"}

\* the position has occurred three times in the history of this game
IsThreefoldRepetition(n) == n = "rep"

\* game.isCheckmate()
IsCheckmate(n) == IsCheck(n) /\ Moves(n) = << >>

\* game.isStalemate()
IsStalemate(n) == ~IsCheck(n) /\ Moves(n) = << >>

\* game.isDraw(): chess.js counts a stalemate among the draws
IsDraw(n) ==
    \/ HalfMoves(n) >= 100
    \/ IsStalemate(n)
    \/ IsInsufficientMaterial(n)
    \/ IsThreefoldRepetition(n)

\* game.isGameOver()
IsGameOver(n) == IsCheckmate(n) \/ IsStalemate(n) \/ IsDraw(n)

SeqToSet(s) == {s[i] : i \in 1..Len(s)}

\* a position string that leaves out the side to move
Fen_PlacementOnly(n) ==
    CASE n \in {"p2", "q1"}   -> "fen-p2"
      [] n \in {"rep", "rep0"} -> "fen-rep"
      [] n \notin Nodes        -> "fen-invalid"
      [] OTHER                 -> "fen-" \o n

\* game.fen(): board, side to move and clocks; the FEN does not carry the
\* history of the game, so the repetition count is not part of it
Fen(n) ==
    CASE n = "p0"    -> "fen-p0"
      [] n = "p1"    -> "fen-p1"
      [] n = "p2"    -> "fen-p2"
      [] n = "p3"    -> "fen-p3"
      [] n = "chk"   -> "fen-chk"
      [] n = "mate"  -> "fen-mate"
      [] n = "stale" -> "fen-stale"
      [] n = "fifty" -> "fen-fifty"
      [] n = "rep"   -> "fen-rep"
      [] n = "rep0"  -> "fen-rep"
      [] n = "kk"    -> "fen-kk"
      [] n = "kk2"   -> "fen-kk2"
      [] n = "q1"    -> "fen-q1"
      [] n = "q2"    -> "fen-q2"
      [] n = "r1"    -> "fen-r1"
      [] n = "solo"  -> "fen-solo"
      [] OTHER       -> "fen-invalid"

Fens == {Fen(n) : n \in Nodes}

\* new Chess(fen): the game loaded from a FEN starts with an empty history;
\* new Chess(undefined) is the start position; an invalid FEN throws
Load(f) ==
    CASE f = "fen-p0"    -> "p0"
      [] f = "fen-p1"    -> "p1"
      [] f = "fen-p2"    -> "p2"
      [] f = "fen-p3"    -> "p3"
      [] f = "fen-chk"   -> "chk"
      [] f = "fen-mate"  -> "mate"
      [] f = "fen-stale" -> "stale"
      [] f = "fen-fifty" -> "fifty"
      [] f = "fen-rep"   -> "rep0"
      [] f = "fen-kk"    -> "kk"
      [] f = "fen-kk2"   -> "kk2"
      [] f = "fen-q1"    -> "q1"
      [] f = "fen-q2"    -> "q2"
      [] f = "fen-r1"    -> "r1"
      [] f = "fen-solo"  -> "solo"
      [] f = "undefined" -> StartNode
      [] OTHER           -> "none"

\* a move without its check / mate decoration
Strip(t) ==
    CASE t = "Bb4+" -> "Bb4"
      [] t = "Qh4#" -> "Qh4"
      [] OTHER      -> t

NoMove == ""

\* the legal move a move text denotes in a position (chess.js compares
\* the text with the generated moves, decorations stripped), or NoMove
Resolve(n, t) ==
    IF t # NoMove /\ \E m \in SeqToSet(Moves(n)) : Strip(m) = Strip(t)
    THEN CHOOSE m \in SeqToSet(Moves(n)) : Strip(m) = Strip(t)
    ELSE NoMove

\* texts a client may send as a move
MoveTexts ==
    UNION {SeqToSet(Moves(n)) : n \in Nodes} \cup {"Qh4", "e9", "O-O", NoMove}

(***************************************************************************)
(* The session manager: chessHandler                                       *)
(***************************************************************************)
\* a chess.js game: its position and the moves made (the source of pgn())
Chess(n, h) == [live |-> TRUE, pos |-> n, history |-> h]

\* games.get(gameId) === undefined
NoGame == [live |-> FALSE, pos |-> "none", history |-> << >>]

\* new Chess()
NewChess == Chess(StartNode, << >>)

\* the move number that opens a full move in the movetext
MoveNumber(k) == ToString(k) \o "."

\* game.pgn({ newline: ' ' }), as the words between its blanks: the moves
\* in order, every move of the first player preceded by its move number
RECURSIVE Pgn(_)
Pgn(h) ==
    IF h = << >> THEN << >>
    ELSE LET k == Len(h) IN
         Pgn(SubSeq(h, 1, k - 1))
         \o (IF k % 2 = 1 THEN <<MoveNumber((k + 1) \div 2)>> ELSE << >>)
         \o <<h[k]>>

SessionNotFound == "Game not found"
IllegalMove     == "Invalid move"

\* the value a command hands back: a GameState, undefined, or a thrown Error
GameState(c, g, t, game, st) ==
    [cmd |-> c, gameId |-> g, move |-> t, error |-> "",
     returned |-> "state", status |-> st, fen |-> Fen(game.pos),
     pgn |-> Pgn(game.history), possibleMoves |-> Moves(game.pos)]

Thrown(c, g, t, e) ==
    [cmd |-> c, gameId |-> g, move |-> t, error |-> e,
     returned |-> "throw", status |-> "", fen |-> "none",
     pgn |-> << >>, possibleMoves |-> << >>]

Undefined(c, g) ==
    [cmd |-> c, gameId |-> g, move |-> NoMove, error |-> "",
     returned |-> "undefined", status |-> "", fen |-> "none",
     pgn |-> << >>, possibleMoves |-> << >>]

\* a status expression that reports a check as a status of its own
MoveStatus_ReportsCheck(n) ==
    IF IsGameOver(n)
    THEN IF IsCheckmate(n) THEN "checkmate"
         ELSE IF IsDraw(n) THEN "draw"
         ELSE IF IsStalemate(n) THEN "stalemate"
         ELSE "ended"
    ELSE IF IsCheck(n) THEN "check"
    ELSE "ongoing"

\* the status expression of the move branch
MoveStatus(n) ==
    IF IsGameOver(n)
    THEN IF IsCheckmate(n) THEN "checkmate"
         ELSE IF IsDraw(n) THEN "draw"
         ELSE IF IsStalemate(n) THEN "stalemate"
         ELSE "ended"
    ELSE "ongoing"

\* ChessProcessor.getGameStatus
GetGameStatus(n) ==
    IF IsCheckmate(n) THEN "checkmate"
    ELSE IF IsDraw(n) THEN "draw"
    ELSE IF IsStalemate(n) THEN "stalemate"
    ELSE IF IsCheck(n) THEN "check"
    ELSE "ongoing"

\* a 'new' that keeps a session already stored under the id
HandlerNew_KeepExisting(gs, g) ==
    IF gs[g].live
    THEN [games |-> gs,
          ret   |-> GameState("new", g, NoMove, gs[g], "ongoing")]
    ELSE [games |-> [gs EXCEPT ![g] = NewChess],
          ret   |-> GameState("new", g, NoMove, NewChess, "ongoing")]

\* a 'new' that keeps one session only: the others are dropped
HandlerNew_SingleSession(gs, g) ==
    [games |-> [b \in GameIds |-> IF b = g THEN NewChess ELSE NoGame],
     ret   |-> GameState("new", g, NoMove, NewChess, "ongoing")]

\* case 'new'
HandlerNew(gs, g) ==
    [games |-> [gs EXCEPT ![g] = NewChess],
     ret   |-> GameState("new", g, NoMove, NewChess, "ongoing")]

\* a 'move' that plays the first legal move when the text denotes none
HandlerMove_LenientParse(gs, g, t) ==
    IF ~gs[g].live
    THEN [games |-> gs, ret |-> Thrown("move", g, t, SessionNotFound)]
    ELSE LET r == Resolve(gs[g].pos, t)
             m == IF r = NoMove /\ Moves(gs[g].pos) # << >>
                  THEN Moves(gs[g].pos)[1] ELSE r
         IN
         IF m = NoMove
         THEN [games |-> gs, ret |-> Thrown("move", g, t, IllegalMove)]
         ELSE LET game == Chess(Succ(gs[g].pos, m), Append(gs[g].history, m))
              IN [games |-> [gs EXCEPT ![g] = game],
                  ret   |-> GameState("move", g, t, game, MoveStatus(game.pos))]

\* a 'move' that records a rejected text in the history
HandlerMove_RecordsRejected(gs, g, t) ==
    IF ~gs[g].live
    THEN [games |-> gs, ret |-> Thrown("move", g, t, SessionNotFound)]
    ELSE LET m == Resolve(gs[g].pos, t) IN
         IF m = NoMove
         THEN [games |-> [gs EXCEPT ![g].history =
                             IF Len(@) < MaxPly THEN Append(@, t) ELSE @],
               ret   |-> Thrown("move", g, t, IllegalMove)]
         ELSE LET game == Chess(Succ(gs[g].pos, m), Append(gs[g].history, m))
              IN [games |-> [gs EXCEPT ![g] = game],
                  ret   |-> GameState("move", g, t, game, MoveStatus(game.pos))]

\* a 'move' that opens a session when the id has none
HandlerMove_AutoCreate(gs, g, t) ==
    LET cur == IF gs[g].live THEN gs[g] ELSE NewChess
        m   == Resolve(cur.pos, t)
    IN
    IF m = NoMove
    THEN [games |-> [gs EXCEPT ![g] = cur],
          ret   |-> Thrown("move", g, t, IllegalMove)]
    ELSE LET game == Chess(Succ(cur.pos, m), Append(cur.history, m))
         IN [games |-> [gs EXCEPT ![g] = game],
             ret   |-> GameState("move", g, t, game, MoveStatus(game.pos))]

\* a 'move' that returns the legal moves computed before the move was made
HandlerMove_CachedMoves(gs, g, t) ==
    IF ~gs[g].live
    THEN [games |-> gs, ret |-> Thrown("move", g, t, SessionNotFound)]
    ELSE LET m == Resolve(gs[g].pos, t) IN
         IF m = NoMove
         THEN [games |-> gs, ret |-> Thrown("move", g, t, IllegalMove)]
         ELSE LET game == Chess(Succ(gs[g].pos, m), Append(gs[g].history, m))
              IN [games |-> [gs EXCEPT ![g] = game],
                  ret   |-> [GameState("move", g, t, game, MoveStatus(game.pos))
                                EXCEPT !.possibleMoves = Moves(gs[g].pos)]]

\* case 'move'
HandlerMove(gs, g, t) ==
    IF ~gs[g].live
    THEN [games |-> gs, ret |-> Thrown("move", g, t, SessionNotFound)]
    ELSE LET m == Resolve(gs[g].pos, t) IN
         IF m = NoMove
         THEN [games |-> gs, ret |-> Thrown("move", g, t, IllegalMove)]
         ELSE LET game == Chess(Succ(gs[g].pos, m), Append(gs[g].history, m))
              IN [games |-> [gs EXCEPT ![g] = game],
                  ret   |-> GameState("move", g, t, game, MoveStatus(game.pos))]

\* default: any other command
HandlerDefault(gs, g, c) == [games |-> gs, ret |-> Undefined(c, g)]

OtherCommands == {"analyze", "chat", "hint"}

(***************************************************************************)
(* The recommendation pipeline: ChessProcessor.process                     *)
(***************************************************************************)
\* longest completion text, in words
MaxWords == 2

\* words a completion text is made of
Words == {"the", "e4", "a3", "Qh4#", "Kb2", "e9"}

\* what the move pattern of extractRecommendedMove matches inside a word
PatternMatch(w) ==
    CASE w = "e4"   -> "e4"
      [] w = "a3"   -> "a3"
      [] w = "Qh4#" -> "Qh4"
      [] w = "Kb2"  -> "Kb2"
      [] w = "Nxe4" -> "Nxe4"
      [] w = "Qxd4" -> "Qxd4"
      [] w = "c3"   -> "c3"
      [] OTHER      -> NoMove

Texts == UNION {[1..k -> Words] : k \in 0..MaxWords}

\* outcomes of llmClient.complete: a rejection, a text, or the text of a
\* JSON object with an optional analysis and an optional recommendedMove
Responses ==
    {[kind |-> "throw", words |-> << >>, analysis |-> FALSE, field |-> NoMove]}
    \cup {[kind |-> "text", words |-> t, analysis |-> FALSE, field |-> NoMove]
             : t \in Texts}
    \cup {[kind |-> "json", words |-> << >>, analysis |-> a, field |-> f]
             : a \in BOOLEAN, f \in Words \cup {NoMove}}

\* response.text as the text scan sees it
TextOf(resp) ==
    IF resp.kind = "json"
    THEN (IF resp.analysis THEN <<"the">> ELSE << >>)
         \o (IF resp.field # NoMove THEN <<resp.field>> ELSE << >>)
    ELSE resp.words

\* analysis.match(pattern): the first match in the text
FirstMatch(text) ==
    IF \E i \in 1..Len(text) : PatternMatch(text[i]) # NoMove
    THEN LET i == CHOOSE j \in 1..Len(text) :
                      /\ PatternMatch(text[j]) # NoMove
                      /\ \A k \in 1..(j - 1) : PatternMatch(text[k]) = NoMove
         IN PatternMatch(text[i])
    ELSE NoMove

Includes(moves, m) == \E i \in 1..Len(moves) : moves[i] = m

\* an extraction that trusts the matched token
ExtractRecommendedMove_Unchecked(text, legalMoves) == FirstMatch(text)

\* extractRecommendedMove
ExtractRecommendedMove(text, legalMoves) ==
    LET moveMatch == FirstMatch(text) IN
    IF moveMatch # NoMove /\ Includes(legalMoves, moveMatch)
    THEN moveMatch
    ELSE NoMove

PreferredMoves == <<"e4", "e5", "d4", "d5", "Nf3", "Nc6">>

\* a default move that is always the first legal move
SelectDefaultMove_FirstLegal(legalMoves) ==
    IF legalMoves # << >> THEN legalMoves[1] ELSE NoMove

\* selectDefaultMove; legalMoves[0] of an empty list is undefined
SelectDefaultMove(legalMoves) ==
    IF \E i \in 1..Len(PreferredMoves) : Includes(legalMoves, PreferredMoves[i])
    THEN PreferredMoves[CHOOSE i \in 1..Len(PreferredMoves) :
             /\ Includes(legalMoves, PreferredMoves[i])
             /\ \A k \in 1..(i - 1) : ~Includes(legalMoves, PreferredMoves[k])]
    ELSE IF legalMoves # << >> THEN legalMoves[1] ELSE NoMove

\* a ProcessedResult, or a thrown Error
Result(mv, legal, n) ==
    [threw |-> FALSE, error |-> "", recommendedMove |-> mv,
     legalMoves |-> legal, calls |-> n]

Failed(e, n) ==
    [threw |-> TRUE, error |-> e, recommendedMove |-> NoMove,
     legalMoves |-> << >>, calls |-> n]

\* createDefaultAnalysis
CreateDefaultAnalysis(legalMoves) ==
    Result(SelectDefaultMove(legalMoves), legalMoves, 1)

\* a process that calls the completion a second time when the first call
\* threw or returned no text
ProcessText_Retries(cmd, f, resp) ==
    IF cmd \notin {"analyze", "chat", "hint"}
    THEN Failed("Invalid command for ChessProcessor", 0)
    ELSE IF Load(f) = "none"
    THEN Failed("Invalid FEN", 0)
    ELSE LET legalMoves == Moves(Load(f)) IN
         IF cmd = "hint"
         THEN Result(IF legalMoves # << >> THEN legalMoves[1] ELSE NoMove,
                     legalMoves, 0)
         ELSE IF resp.kind = "throw"
         THEN [CreateDefaultAnalysis(legalMoves) EXCEPT !.calls = 2]
         ELSE IF TextOf(resp) # << >>
         THEN LET recommendedMove ==
                      ExtractRecommendedMove(TextOf(resp), legalMoves)
              IN Result(IF recommendedMove # NoMove THEN recommendedMove
                        ELSE SelectDefaultMove(legalMoves),
                        legalMoves, 1)
         ELSE [CreateDefaultAnalysis(legalMoves) EXCEPT !.calls = 2]

\* process of the ChessProcessor with the free-text prompt
\* (commands analyze, chat, hint)
ProcessText(cmd, f, resp) ==
    IF cmd \notin {"analyze", "chat", "hint"}
    THEN Failed("Invalid command for ChessProcessor", 0)
    ELSE IF Load(f) = "none"
    THEN Failed("Invalid FEN", 0)
    ELSE LET legalMoves == Moves(Load(f)) IN
         IF cmd = "hint"
         THEN Result(IF legalMoves # << >> THEN legalMoves[1] ELSE NoMove,
                     legalMoves, 0)
         ELSE IF resp.kind = "throw"
         THEN CreateDefaultAnalysis(legalMoves)
         ELSE IF TextOf(resp) # << >>
         THEN LET recommendedMove ==
                      ExtractRecommendedMove(TextOf(resp), legalMoves)
              IN Result(IF recommendedMove # NoMove THEN recommendedMove
                        ELSE SelectDefaultMove(legalMoves),
                        legalMoves, 1)
         ELSE CreateDefaultAnalysis(legalMoves)

\* the errors thrown on a parsed response, as rethrown by the catch clause
MissingFields == "Bobby's analysis failed: Response missing required fields"

IllegalSuggested == "Bobby's analysis failed: Illegal move suggested"

\* process of the ChessProcessor with the JSON prompt (commands analyze, chat)
ProcessJson(cmd, f, resp) ==
    IF cmd \notin {"analyze", "chat"}
    THEN Failed("Invalid command for ChessProcessor", 0)
    ELSE IF Load(f) = "none"
    THEN Failed("Invalid FEN", 0)
    ELSE IF cmd = "chat"
    THEN (IF resp.kind = "throw" THEN Failed("completion failed", 1)
          ELSE Result(NoMove, << >>, 1))
    ELSE LET legalMoves == Moves(Load(f)) IN
         IF resp.kind # "json"
         THEN Failed("Bobby's analysis failed", 1)
         ELSE IF ~resp.analysis \/ resp.field = NoMove
         THEN Failed(MissingFields, 1)
         ELSE IF ~Includes(legalMoves, resp.field)
         THEN Failed(IllegalSuggested, 1)
         ELSE Result(resp.field, legalMoves, 1)

Versions == {"text", "json"}

\* canHandle of the two processors
CanHandle(v, cmd) ==
    IF v = "text" THEN cmd \in {"new", "move", "analyze", "chat", "hint"}
    ELSE cmd \in {"new", "move", "analyze", "chat"}

Process(v, cmd, f, resp) ==
    IF v = "text" THEN ProcessText(cmd, f, resp) ELSE ProcessJson(cmd, f, resp)

ProcessCommands == {"analyze", "chat", "hint", "move"}

FenInputs == Fens \cup {"undefined", "fen-invalid"}

NoRequest ==
    [version |-> "none", cmd |-> "none", fen |-> "undefined",
     resp |-> [kind |-> "throw", words |-> << >>, analysis |-> FALSE,
               field |-> NoMove]]

(***************************************************************************)
(* The duplex gateway: wss.on('connection') and ws.on('message')           *)
(***************************************************************************)
\* inbound messages the gateway is driven with
MaxMsgs == 2

Conns == {"c1", "c2"}

\* every connection plays the same session
GatewayGame == "game1"

\* let currentGame: undefined until initGame has stored a GameState
NoCurrentGame == [defined |-> FALSE, fen |-> "undefined", status |-> ""]

CurrentGame(r) == [defined |-> TRUE, fen |-> r.fen, status |-> r.status]

\* an outbound event; re is the number of the inbound message it answers
Event(ty, info, k) == [type |-> ty, info |-> info, re |-> k]

\* what was thrown while the handler of message k of connection c ran
\* ("" when nothing was)
Caught(k, c, e) == [id |-> k, conn |-> c, error |-> e]

NoError == Caught(0, "none", "")

\* move texts and positions the clients send
GatewayMoves == {"e4", "a3", "e5", "Nf3", "Qg7", "e9"}

GatewayFens == {"fen-p0", "fen-invalid"}

\* completion outcomes the gateway is driven with
GatewayResponses ==
    {r \in Responses :
        \/ r.kind = "throw"
        \/ r.kind = "text" /\ r.words \in {<< >>, <<"the">>, <<"a3">>, <<"e9">>}
        \/ r.kind = "json" /\ r.analysis /\ r.field \in {"a3", "e9"}}

(***************************************************************************)
(* The terminal loop playChess and the match loop playMatch                *)
(***************************************************************************)
\* human turns the terminal loop is driven through
MaxTurns == 2

\* iterations the match loop is driven through
MaxMatchPly == 8

\* const gameId of playChess
CliGame == "game1"

\* the session playMatch plays in
MatchGame == "game1"

\* let game: the GameState the loop last stored
LocalGame(r) ==
    [fen |-> r.fen, status |-> r.status, pgn |-> r.pgn,
     possibleMoves |-> r.possibleMoves]

NoLocalGame ==
    [fen |-> "undefined", status |-> "", pgn |-> << >>,
     possibleMoves |-> << >>]

\* the loop before its first statement; input and outcome describe the
\* step taken last, mover the side whose move the session took last
CliInit ==
    [pc |-> "start", game |-> NoLocalGame, input |-> "none",
     outcome |-> "none", mover |-> "none"]

\* what the line typed at the prompt selects besides a move
CliCommands == {"chat", "analyze", "hint"}

\* completion outcomes naming one of the moves ms, or none
ResponsesNaming(ms) ==
    {[kind |-> "throw", words |-> << >>, analysis |-> FALSE, field |-> NoMove]}
    \cup {[kind |-> "text", words |-> t, analysis |-> FALSE, field |-> NoMove]
             : t \in {<< >>, <<"the">>} \cup {<<m>> : m \in ms}}
    \cup {[kind |-> "json", words |-> << >>, analysis |-> TRUE, field |-> m]
             : m \in ms}

\* playMatch before its first statement; proposed, selected, repetitive and
\* exit describe the iteration run last, result is the value returned
NoResult == [winner |-> "none", moves |-> 0, endReason |-> "none"]

MatchInit ==
    [pc |-> "start", game |-> NoLocalGame, moveCount |-> 0,
     proposed |-> NoMove, selected |-> NoMove, repetitive |-> FALSE,
     exit |-> "none", error |-> "", result |-> NoResult]

\* completion outcomes the loops are driven with
LoopResponses ==
    ResponsesNaming({"e4", "a3", "Nf3", "Nxe4", "Qxd4", "c3", "e9", "Qh4#"})

VARIABLES
    cli,       \* the terminal loop playChess: its position, local game, last step
    match,     \* the match loop playMatch: its position, local game, counters
    req,       \* the last call of process: its processor, command, fen, completion
    analysis,  \* what that call handed back
    open,      \* the gateway's connected clients
    currentGame, \* per connection: the GameState its handlers last stored
    tasks,     \* message handlers suspended at the completion call
    outbox,    \* per connection: the events sent to the client, in order
    nmsg,      \* number of inbound messages received so far
    lastError, \* the message a handler ran for last, and what was thrown in it
    games,     \* the map gameId -> chess.js game
    ret,       \* what the last command handed back to its caller
    accepted,  \* per gameId: move commands that succeeded since its last new
    reported,  \* per gameId: the status last returned for the session
    prior      \* the status last returned for ret.gameId before the last command

handlerVars == <<games, ret, accepted, reported, prior>>
pipelineVars == <<req, analysis>>
gatewayVars == <<open, currentGame, tasks, outbox, nmsg, lastError>>
loopVars == <<cli, match>>
vars == <<games, ret, accepted, reported, prior, req, analysis,
          open, currentGame, tasks, outbox, nmsg, lastError, cli, match>>

Init ==
    /\ games = [g \in GameIds |-> NoGame]
    /\ ret = Undefined("none", "game1")
    /\ accepted = [g \in GameIds |-> 0]
    /\ reported = [g \in GameIds |-> "none"]
    /\ prior = "none"
    /\ req = NoRequest
    /\ analysis = Failed("", 0)
    /\ open = {}
    /\ currentGame = [c \in Conns |-> NoCurrentGame]
    /\ tasks = {}
    /\ outbox = [c \in Conns |-> << >>]
    /\ nmsg = 0
    /\ lastError = NoError
    /\ cli = CliInit
    /\ match = MatchInit

\* bookkeeping of what the callers have observed
Observe(r) ==
    /\ prior' = reported[r.gameId]
    /\ IF r.returned = "state"
       THEN /\ accepted' = [accepted EXCEPT ![r.gameId] =
                               IF r.cmd = "new" THEN 0 ELSE @ + 1]
            /\ reported' = [reported EXCEPT ![r.gameId] = r.status]
       ELSE UNCHANGED <<accepted, reported>>

ExecNew(g) ==
    LET r == HandlerNew(games, g) IN
    /\ games' = r.games
    /\ ret' = r.ret
    /\ Observe(r.ret)

ExecMove(g, t) ==
    LET r == HandlerMove(games, g, t) IN
    /\ Len(r.games[g].history) <= MaxPly
    /\ games' = r.games
    /\ ret' = r.ret
    /\ Observe(r.ret)

ExecOther(g, c) ==
    LET r == HandlerDefault(games, g, c) IN
    /\ games' = r.games
    /\ ret' = r.ret
    /\ Observe(r.ret)

Next ==
    \/ \E g \in GameIds :
           ExecNew(g) /\ UNCHANGED <<pipelineVars, gatewayVars, loopVars>>
    \/ \E g \in GameIds, t \in MoveTexts :
           ExecMove(g, t) /\ UNCHANGED <<pipelineVars, gatewayVars, loopVars>>
    \/ \E g \in GameIds, c \in OtherCommands :
           ExecOther(g, c) /\ UNCHANGED <<pipelineVars, gatewayVars, loopVars>>

Spec == Init /\ [][Next]_vars

\* Each message handler is an async function.  execute contains no await of
\* its own, so a handler runs without interruption from the arrival of its
\* message to the completion call inside bobby.process, where it is
\* suspended, and again from the settling of that call to its end.  Handlers
\* of other messages, on any connection, run in between.

\* a call of chessHandler.execute made by a gateway handler
Call(r) ==
    /\ games' = r.games
    /\ ret' = r.ret
    /\ Observe(r.ret)

Send(c, e) == outbox' = [outbox EXCEPT ![c] = Append(@, e)]

\* wss.on('connection'): initGame issues new for the shared session
Connect(c) ==
    /\ c \notin open
    /\ open' = open \cup {c}
    /\ LET r == HandlerNew(games, GatewayGame) IN
       /\ Call(r)
       /\ currentGame' = [currentGame EXCEPT ![c] = CurrentGame(r.ret)]
    /\ UNCHANGED <<tasks, outbox, nmsg, lastError, pipelineVars>>

\* a message {type: 'move'}: the human move is applied, then the handler
\* suspends at the completion call of bobby.process (analyze)
RecvMove(c, t) ==
    /\ c \in open
    /\ nmsg < MaxMsgs
    /\ nmsg' = nmsg + 1
    /\ LET r == HandlerMove(games, GatewayGame, t) IN
       /\ Call(r)
       /\ lastError' = Caught(nmsg + 1, c, r.ret.error)
       /\ IF r.ret.returned = "throw"
          THEN /\ Send(c, Event("error", r.ret.error, nmsg + 1))
               /\ UNCHANGED <<currentGame, tasks>>
          ELSE /\ currentGame' = [currentGame EXCEPT ![c] = CurrentGame(r.ret)]
               /\ IF r.ret.status # "ongoing"
                  THEN /\ Send(c, Event("game_over", r.ret.status, nmsg + 1))
                       /\ UNCHANGED tasks
                  ELSE /\ tasks' = tasks \cup
                              {[id |-> nmsg + 1, conn |-> c, kind |-> "move",
                                fen |-> r.ret.fen]}
                       /\ UNCHANGED outbox
    /\ UNCHANGED <<open, pipelineVars>>

\* a message {type: 'chat'}: bobby.process (chat) on currentGame.fen
RecvChat(c) ==
    /\ c \in open
    /\ nmsg < MaxMsgs
    /\ nmsg' = nmsg + 1
    /\ tasks' = tasks \cup {[id |-> nmsg + 1, conn |-> c, kind |-> "chat",
                             fen |-> currentGame[c].fen]}
    /\ lastError' = Caught(nmsg + 1, c, "")
    /\ UNCHANGED <<open, currentGame, outbox, handlerVars, pipelineVars>>

\* a message {type: 'analyze', position}: bobby.process (analyze) on the
\* position sent; new Chess(fen) throws on an invalid one
RecvAnalyze(c, f) ==
    /\ c \in open
    /\ nmsg < MaxMsgs
    /\ nmsg' = nmsg + 1
    /\ lastError' = Caught(nmsg + 1, c,
                           IF Load(f) = "none" THEN "Invalid FEN" ELSE "")
    /\ IF Load(f) = "none"
       THEN /\ Send(c, Event("error", "Internal server error", nmsg + 1))
            /\ UNCHANGED tasks
       ELSE /\ tasks' = tasks \cup {[id |-> nmsg + 1, conn |-> c,
                                     kind |-> "analyze", fen |-> f]}
            /\ UNCHANGED outbox
    /\ UNCHANGED <<open, currentGame, handlerVars, pipelineVars>>

\* a message handler that parses the message before its try block
RecvGarbage_Unhandled(c) ==
    /\ c \in open
    /\ nmsg < MaxMsgs
    /\ nmsg' = nmsg + 1
    /\ lastError' = Caught(nmsg + 1, c, "Unexpected token")
    /\ UNCHANGED <<open, currentGame, tasks, outbox, handlerVars, pipelineVars>>

\* a message that is not JSON: JSON.parse throws into the outer catch
RecvGarbage(c) ==
    /\ c \in open
    /\ nmsg < MaxMsgs
    /\ nmsg' = nmsg + 1
    /\ lastError' = Caught(nmsg + 1, c, "Unexpected token")
    /\ Send(c, Event("error", "Internal server error", nmsg + 1))
    /\ UNCHANGED <<open, currentGame, tasks, handlerVars, pipelineVars>>

\* a message of any other type: no branch is taken
RecvOther(c) ==
    /\ c \in open
    /\ nmsg < MaxMsgs
    /\ nmsg' = nmsg + 1
    /\ lastError' = Caught(nmsg + 1, c, "")
    /\ UNCHANGED <<open, currentGame, tasks, outbox, handlerVars, pipelineVars>>

\* the completion call of a suspended move handler settles: the
\* recommended move, if any, is sent to the session as a move command
CompleteMove(task, v, resp) ==
    /\ task \in tasks
    /\ task.kind = "move"
    /\ tasks' = tasks \ {task}
    /\ LET a == Process(v, "analyze", task.fen, resp) IN
       IF a.threw
       THEN /\ lastError' = Caught(task.id, task.conn, a.error)
            /\ Send(task.conn, Event("error", a.error, task.id))
            /\ UNCHANGED <<currentGame, handlerVars>>
       ELSE IF a.recommendedMove = NoMove
       THEN /\ lastError' = Caught(task.id, task.conn, "")
            /\ UNCHANGED <<currentGame, outbox, handlerVars>>
       ELSE LET r == HandlerMove(games, GatewayGame, a.recommendedMove) IN
            /\ Call(r)
            /\ lastError' = Caught(task.id, task.conn, r.ret.error)
            /\ IF r.ret.returned = "throw"
               THEN /\ Send(task.conn, Event("error", r.ret.error, task.id))
                    /\ UNCHANGED currentGame
               ELSE /\ currentGame' =
                          [currentGame EXCEPT ![task.conn] = CurrentGame(r.ret)]
                    /\ Send(task.conn,
                            Event("move", a.recommendedMove, task.id))
    /\ UNCHANGED <<open, nmsg, pipelineVars>>

\* completion calls that settle in the order in which they were made
CompleteText_InOrder(task, v, resp) ==
    /\ task \in tasks
    /\ \A other \in tasks : other.id >= task.id
    /\ task.kind \in {"chat", "analyze"}
    /\ tasks' = tasks \ {task}
    /\ LET a == Process(v, task.kind, task.fen, resp) IN
       /\ lastError' = Caught(task.id, task.conn, a.error)
       /\ IF a.threw
          THEN Send(task.conn,
                    Event("error", "Internal server error", task.id))
          ELSE Send(task.conn, Event("message", "content", task.id))
    /\ UNCHANGED <<open, currentGame, nmsg, handlerVars, pipelineVars>>

\* the completion call of a suspended chat or analyze handler settles
CompleteText(task, v, resp) ==
    /\ task \in tasks
    /\ task.kind \in {"chat", "analyze"}
    /\ tasks' = tasks \ {task}
    /\ LET a == Process(v, task.kind, task.fen, resp) IN
       /\ lastError' = Caught(task.id, task.conn, a.error)
       /\ IF a.threw
          THEN Send(task.conn,
                    Event("error", "Internal server error", task.id))
          ELSE Send(task.conn, Event("message", "content", task.id))
    /\ UNCHANGED <<open, currentGame, nmsg, handlerVars, pipelineVars>>

NextGateway ==
    \/ \E c \in Conns, t \in GatewayMoves :
           RecvMove(c, t) /\ UNCHANGED loopVars
    \/ \E c \in Conns : RecvChat(c) /\ UNCHANGED loopVars
    \/ \E c \in Conns, f \in GatewayFens :
           RecvAnalyze(c, f) /\ UNCHANGED loopVars
    \/ \E c \in Conns : RecvGarbage(c) /\ UNCHANGED loopVars
    \/ \E c \in Conns : RecvOther(c) /\ UNCHANGED loopVars
    \/ \E task \in tasks, v \in Versions, resp \in GatewayResponses :
           CompleteMove(task, v, resp) /\ UNCHANGED loopVars
    \/ \E task \in tasks, v \in Versions, resp \in GatewayResponses :
           CompleteText(task, v, resp) /\ UNCHANGED loopVars
    \/ \E c \in Conns : Connect(c) /\ UNCHANGED loopVars

SpecGateway == Init /\ [][NextGateway]_vars

\* a completion call that rejects
Rejection ==
    [kind |-> "throw", words |-> << >>, analysis |-> FALSE, field |-> NoMove]

\* the completion call of a suspended handler of connection c returns by
\* rejecting. The step is enabled for as long as a call of c is pending with
\* its handler free to resume, and any return of that call disables it
SettleRejecting(c) ==
    \E task \in {t \in tasks : t.conn = c} :
        /\ CompleteMove(task, "json", Rejection)
              \/ CompleteText(task, "json", Rejection)
        /\ UNCHANGED loopVars

\* the connection whose completion calls all return, one way or another;
\* those of the other connection may stay pending for ever
ServedConn == "c2"

StalledConn == "c1"

\* the gateway when the completion service answers every call of
\* ServedConn: each handler is an independent async function, which the
\* event loop resumes once the promise it awaits has settled
SpecGatewayStalled == SpecGateway /\ WF_vars(SettleRejecting(ServedConn))

\* the calls of process: any processor, command, position and completion
Requests ==
    [version : Versions, cmd : ProcessCommands, fen : FenInputs,
     resp : Responses]

Pending == Failed("pending", 0)

InitPipeline ==
    /\ games = [g \in GameIds |-> NoGame]
    /\ ret = Undefined("none", "game1")
    /\ accepted = [g \in GameIds |-> 0]
    /\ reported = [g \in GameIds |-> "none"]
    /\ prior = "none"
    /\ req \in Requests
    /\ analysis = Pending
    /\ open = {}
    /\ currentGame = [c \in Conns |-> NoCurrentGame]
    /\ tasks = {}
    /\ outbox = [c \in Conns |-> << >>]
    /\ nmsg = 0
    /\ lastError = NoError
    /\ cli = CliInit
    /\ match = MatchInit

\* the call of process returns or throws
Analyze ==
    /\ analysis = Pending
    /\ analysis' = Process(req.version, req.cmd, req.fen, req.resp)
    /\ UNCHANGED req
    /\ UNCHANGED handlerVars
    /\ UNCHANGED gatewayVars
    /\ UNCHANGED loopVars

NextPipeline == Analyze

SpecPipeline == InitPipeline /\ [][NextPipeline]_vars

(***************************************************************************)
(* playChess: the terminal loop                                            *)
(***************************************************************************)
\* The loop is one async function: between two of its awaits nothing else
\* runs in the process, so a step is the code from one await to the next.

\* handler({command: "new"}) before the loop
CliStart ==
    /\ cli.pc = "start"
    /\ LET r == HandlerNew(games, CliGame) IN
       /\ Call(r)
       /\ cli' = [pc |-> "eval", game |-> LocalGame(r.ret),
                  input |-> "new", outcome |-> "ok", mover |-> "none"]

\* the head of an iteration: evaluatePosition awaits bobby.process
\* (analyze) outside every try block
CliEvaluate(v, resp) ==
    /\ cli.pc = "eval"
    /\ LET a == Process(v, "analyze", cli.game.fen, resp) IN
       cli' = [cli EXCEPT !.pc = IF a.threw THEN "crashed" ELSE "prompt",
                          !.input = "eval",
                          !.outcome = IF a.threw THEN "threw" ELSE "ok"]
    /\ UNCHANGED handlerVars

\* the line 'quit'
CliQuit ==
    /\ cli.pc = "prompt"
    /\ cli' = [cli EXCEPT !.pc = "done", !.input = "quit", !.outcome = "ok"]
    /\ UNCHANGED handlerVars

\* a read-only line that also reloads the session from the local FEN
CliReadOnly_Reloads(c, v, resp) ==
    /\ cli.pc = "prompt"
    /\ LET a == Process(v, IF c = "chat" THEN "chat" ELSE "analyze",
                        cli.game.fen, resp)
       IN cli' = [cli EXCEPT !.pc = IF a.threw THEN "crashed" ELSE "eval",
                             !.input = c,
                             !.outcome = IF a.threw THEN "threw" ELSE "ok"]
    /\ games' = [games EXCEPT ![CliGame] = Chess(Load(cli.game.fen), << >>)]
    /\ UNCHANGED <<ret, accepted, reported, prior>>

\* the lines 'chat', 'analyze' and 'hint': bobby.process on game.fen, its
\* answer printed; the call is outside every try block
CliReadOnly(c, v, resp) ==
    /\ cli.pc = "prompt"
    /\ LET a == Process(v, IF c = "chat" THEN "chat" ELSE "analyze",
                        cli.game.fen, resp)
       IN cli' = [cli EXCEPT !.pc = IF a.threw THEN "crashed" ELSE "eval",
                             !.input = c,
                             !.outcome = IF a.threw THEN "threw" ELSE "ok"]
    /\ UNCHANGED handlerVars

\* a human move that is followed by the analysis whatever the handler said
CliMove_AnalysesAnyway(t) ==
    /\ cli.pc = "prompt"
    /\ Len(games[CliGame].history) < 2 * MaxTurns
    /\ LET r == HandlerMove(games, CliGame, t) IN
       /\ Call(r)
       /\ IF r.ret.returned = "throw"
          THEN cli' = [cli EXCEPT !.pc = "thinking", !.input = "move",
                                  !.outcome = "rejected"]
          ELSE cli' = [pc |-> IF r.ret.status # "ongoing" THEN "done"
                              ELSE "thinking",
                       game |-> LocalGame(r.ret), input |-> "move",
                       outcome |-> "accepted", mover |-> "human"]

\* any other line is the human's move: the handler applies it; a terminal
\* status ends the loop, otherwise the loop awaits bobby.process (analyze);
\* a throw of the handler lands in the outer catch, which continues
CliMove(t) ==
    /\ cli.pc = "prompt"
    /\ Len(games[CliGame].history) < 2 * MaxTurns
    /\ LET r == HandlerMove(games, CliGame, t) IN
       /\ Call(r)
       /\ IF r.ret.returned = "throw"
          THEN cli' = [cli EXCEPT !.pc = "eval", !.input = "move",
                                  !.outcome = "rejected"]
          ELSE cli' = [pc |-> IF r.ret.status # "ongoing" THEN "done"
                              ELSE "thinking",
                       game |-> LocalGame(r.ret), input |-> "move",
                       outcome |-> "accepted", mover |-> "human"]

\* a reply after which the loop goes on whatever status the handler returned
CliReply_PlaysOn(v, resp) ==
    /\ cli.pc = "thinking"
    /\ LET a == Process(v, "analyze", cli.game.fen, resp) IN
       IF a.threw \/ a.recommendedMove = NoMove
       THEN /\ cli' = [cli EXCEPT !.pc = "eval", !.input = "reply",
                                  !.outcome = IF a.threw THEN "threw"
                                              ELSE "none"]
            /\ UNCHANGED handlerVars
       ELSE LET r == HandlerMove(games, CliGame, a.recommendedMove) IN
            /\ Call(r)
            /\ IF r.ret.returned = "throw"
               THEN cli' = [cli EXCEPT !.pc = "eval", !.input = "reply",
                                       !.outcome = "rejected"]
               ELSE cli' = [pc |-> "eval",
                            game |-> LocalGame(r.ret), input |-> "reply",
                            outcome |-> "accepted", mover |-> "bobby"]

\* the analysis settles: the recommended move, if any, is sent to the
\* handler; a throw of process or of the handler lands in a catch that
\* continues, an absent move continues as well
CliReply(v, resp) ==
    /\ cli.pc = "thinking"
    /\ LET a == Process(v, "analyze", cli.game.fen, resp) IN
       IF a.threw \/ a.recommendedMove = NoMove
       THEN /\ cli' = [cli EXCEPT !.pc = "eval", !.input = "reply",
                                  !.outcome = IF a.threw THEN "threw"
                                              ELSE "none"]
            /\ UNCHANGED handlerVars
       ELSE LET r == HandlerMove(games, CliGame, a.recommendedMove) IN
            /\ Call(r)
            /\ IF r.ret.returned = "throw"
               THEN cli' = [cli EXCEPT !.pc = "eval", !.input = "reply",
                                       !.outcome = "rejected"]
               ELSE cli' = [pc |-> IF r.ret.status # "ongoing" THEN "done"
                                   ELSE "eval",
                            game |-> LocalGame(r.ret), input |-> "reply",
                            outcome |-> "accepted", mover |-> "bobby"]

NextCli ==
    \/ CliStart /\ UNCHANGED <<pipelineVars, gatewayVars, match>>
    \/ \E v \in Versions, resp \in LoopResponses :
           CliEvaluate(v, resp) /\ UNCHANGED <<pipelineVars, gatewayVars, match>>
    \/ CliQuit /\ UNCHANGED <<pipelineVars, gatewayVars, match>>
    \/ \E c \in CliCommands, v \in Versions, resp \in LoopResponses :
           CliReadOnly(c, v, resp)
           /\ UNCHANGED <<pipelineVars, gatewayVars, match>>
    \/ \E t \in MoveTexts :
           CliMove(t) /\ UNCHANGED <<pipelineVars, gatewayVars, match>>
    \/ \E v \in Versions, resp \in LoopResponses :
           CliReply(v, resp) /\ UNCHANGED <<pipelineVars, gatewayVars, match>>

SpecCli == Init /\ [][NextCli]_vars

\* a process runs one front end of the engine: the terminal loop or the
\* gateway
NextFrontEnd ==
    \/ open = {} /\ NextCli
    \/ cli.pc = "start" /\ NextGateway

SpecFrontEnd == Init /\ [][NextFrontEnd]_vars

(***************************************************************************)
(* playMatch: the loop of the two automated players                        *)
(***************************************************************************)
\* game.fen.split(' ')[1]: the side to move
SideToMove(f) ==
    IF f \in {"fen-p0", "fen-q1", "fen-solo", "fen-mate", "fen-stale",
              "fen-fifty", "fen-rep", "fen-kk"}
    THEN "w" ELSE "b"

\* validateMove: the move is the SAN of a legal move of the position
ValidateMove(f, move) ==
    Load(f) # "none" /\ Includes(Moves(Load(f)), move)

\* array.slice(-n)
Slice(s, n) ==
    IF Len(s) <= n THEN s ELSE SubSeq(s, Len(s) - n + 1, Len(s))

\* array.filter(m => m === move).length
Occurrences(s, move) == Cardinality({i \in 1..Len(s) : s[i] = move})

\* isRepetitiveMove: pgn.split(' ').slice(-6) holds the move twice
IsRepetitiveMove(move, pgn) ==
    LET moves == Slice(pgn, 6)
    IN Occurrences(moves, move) >= 2

\* an alternative taken from the preferred openings instead of possibleMoves
AlternativeMoves_FromPreferred(possibleMoves, selectedMove) ==
    SelectSeq(PreferredMoves, LAMBDA m : m # selectedMove)

\* possibleMoves.filter(m => m !== selectedMove)
AlternativeMoves(possibleMoves, selectedMove) ==
    SelectSeq(possibleMoves, LAMBDA m : m # selectedMove)

\* a result whose winner is the player to move in the final position
MatchResult_WinnerToMove(game, moveCount) ==
    [winner    |-> IF game.status = "checkmate"
                   THEN (IF SideToMove(game.fen) = "w" THEN "Fischer"
                         ELSE "Kasparov")
                   ELSE "Draw",
     moves     |-> moveCount,
     endReason |-> game.status]

\* the value playMatch returns once the loop is left
MatchResult(game, moveCount) ==
    [winner    |-> IF game.status = "checkmate"
                   THEN (IF SideToMove(game.fen) = "w" THEN "Kasparov"
                         ELSE "Fischer")
                   ELSE "Draw",
     moves     |-> moveCount,
     endReason |-> game.status]

\* executeChessCommand({command: "new"}) before the loop
MatchStart ==
    /\ match.pc = "start"
    /\ LET r == HandlerNew(games, MatchGame) IN
       /\ Call(r)
       /\ match' = [match EXCEPT !.pc = "loop", !.game = LocalGame(r.ret)]

\* the loop is left: playMatch returns its result
Break(m, why) ==
    [m EXCEPT !.pc = "done", !.exit = why,
              !.result = MatchResult(m.game, m.moveCount)]

\* an iteration that stops on a repeated move without an alternative only
\* after having played it
MatchTurn_PlaysBeforeStopping(v, resp) ==
    /\ match.pc = "loop"
    /\ match.moveCount < MaxMatchPly
    /\ LET a == Process(v, "analyze", match.game.fen, resp)
           counted == [match EXCEPT !.moveCount = @ + 1,
                                    !.proposed = a.recommendedMove,
                                    !.selected = NoMove,
                                    !.repetitive = FALSE]
       IN
       IF a.threw
       THEN /\ match' = [match EXCEPT !.pc = "crashed", !.exit = "threw",
                                      !.error = a.error]
            /\ UNCHANGED handlerVars
       ELSE IF a.recommendedMove = NoMove
       THEN /\ match' = Break(counted, "no-move")
            /\ UNCHANGED handlerVars
       ELSE IF ~ValidateMove(match.game.fen, a.recommendedMove)
       THEN /\ match' = Break(counted, "invalid-move")
            /\ UNCHANGED handlerVars
       ELSE LET repetitive == IsRepetitiveMove(a.recommendedMove,
                                               match.game.pgn)
                alternativeMoves == AlternativeMoves(match.game.possibleMoves,
                                                     a.recommendedMove)
                selectedMove == IF repetitive /\ alternativeMoves # << >>
                                THEN alternativeMoves[1]
                                ELSE a.recommendedMove
                r == HandlerMove(games, MatchGame, selectedMove)
                tried == [counted EXCEPT !.selected = selectedMove,
                                         !.repetitive = repetitive]
            IN
            /\ Call(r)
            /\ IF r.ret.returned = "throw"
               THEN match' = Break(tried, "move-threw")
               ELSE LET moved == [tried EXCEPT !.game = LocalGame(r.ret)] IN
                    IF repetitive /\ alternativeMoves = << >>
                    THEN match' = Break(moved, "no-alternative")
                    ELSE IF r.ret.status # "ongoing"
                    THEN match' = Break(moved, "game-over")
                    ELSE match' = moved

\* one iteration of while (true), from the await of currentPlayer.process
\* (which is outside the try block) to the next one or to the return
MatchTurn(v, resp) ==
    /\ match.pc = "loop"
    /\ match.moveCount < MaxMatchPly
    /\ LET a == Process(v, "analyze", match.game.fen, resp)
           counted == [match EXCEPT !.moveCount = @ + 1,
                                    !.proposed = a.recommendedMove,
                                    !.selected = NoMove,
                                    !.repetitive = FALSE]
       IN
       IF a.threw
       THEN /\ match' = [match EXCEPT !.pc = "crashed", !.exit = "threw",
                                      !.error = a.error]
            /\ UNCHANGED handlerVars
       ELSE IF a.recommendedMove = NoMove
       THEN /\ match' = Break(counted, "no-move")
            /\ UNCHANGED handlerVars
       ELSE IF ~ValidateMove(match.game.fen, a.recommendedMove)
       THEN /\ match' = Break(counted, "invalid-move")
            /\ UNCHANGED handlerVars
       ELSE LET repetitive == IsRepetitiveMove(a.recommendedMove,
                                               match.game.pgn)
                alternativeMoves == AlternativeMoves(match.game.possibleMoves,
                                                     a.recommendedMove)
            IN
            IF repetitive /\ alternativeMoves = << >>
            THEN /\ match' = Break([counted EXCEPT !.repetitive = TRUE],
                                   "no-alternative")
                 /\ UNCHANGED handlerVars
            ELSE LET selectedMove == IF repetitive THEN alternativeMoves[1]
                                     ELSE a.recommendedMove
                     r == HandlerMove(games, MatchGame, selectedMove)
                     tried == [counted EXCEPT !.selected = selectedMove,
                                              !.repetitive = repetitive]
                 IN
                 /\ Call(r)
                 /\ IF r.ret.returned = "throw"
                    THEN match' = Break(tried, "move-threw")
                    ELSE LET moved == [tried EXCEPT !.game = LocalGame(r.ret)]
                         IN IF r.ret.status # "ongoing"
                            THEN match' = Break(moved, "game-over")
                            ELSE match' = moved

NextMatch ==
    \/ MatchStart /\ UNCHANGED <<pipelineVars, gatewayVars, cli>>
    \/ \E v \in Versions, resp \in LoopResponses :
           MatchTurn(v, resp) /\ UNCHANGED <<pipelineVars, gatewayVars, cli>>

SpecMatch == Init /\ [][NextMatch]_vars

TypeOK ==
    /\ \A g \in GameIds : games[g].pos \in Nodes \cup {"none"}
    /\ \A g \in GameIds :
           Len(games[g].history)
               <= MaxPly + 2 * MaxMsgs + 2 * MaxTurns + MaxMatchPly
(***************************************************************************)
(* Properties of the session manager                                       *)
(***************************************************************************)
TerminalStatuses == {"checkmate", "stalemate", "draw", "ended"}

\* C1: a move command whose text denotes no legal move of the session's
\* current position throws the IllegalMove error and leaves the whole map,
\* and so the session's position and move record, as it was.
C1_IllegalMoveRejected ==
    [][ ( /\ ret'.cmd = "move"
          /\ games[ret'.gameId].live
          /\ Resolve(games[ret'.gameId].pos, ret'.move) = NoMove )
        => ( /\ ret'.returned = "throw"
             /\ ret'.error = IllegalMove
             /\ games' = games ) ]_vars

C1_Witness ==
    /\ ret.cmd = "move"
    /\ ret.error = IllegalMove
    /\ ret.move = "e9"
    /\ games[ret.gameId].live
    /\ Len(games[ret.gameId].history) >= 2

\* C5: once a move command has returned a terminal status for a session,
\* every later accepted move command on that session returns that same
\* status.
C5_StatusOnlyForward ==
    ( /\ ret.cmd = "move"
      /\ ret.returned = "state"
      /\ prior \in TerminalStatuses )
    => ret.status = prior

\* C6: a move command is accepted only if the status last reported for the
\* session is ongoing (or new) and the text denotes a legal move.
C6_AcceptedOnlyWhenOngoing ==
    [][ ( /\ ret'.cmd = "move"
          /\ ret'.returned = "state"
          /\ ret' # ret )
        => ( /\ reported[ret'.gameId] \in {"new", "ongoing"}
             /\ Resolve(games[ret'.gameId].pos, ret'.move) # NoMove ) ]_vars

\* C7: the length of a session's move record equals the number of move
\* commands accepted for it since its last new; an accepted move adds
\* exactly one entry, and a rejected or read-only command changes no record.
C7_Counted ==
    \A g \in GameIds : Len(games[g].history) = accepted[g]

C7_Step ==
    /\ ( ret'.cmd = "move" /\ ret'.returned = "state" )
       => Len(games'[ret'.gameId].history)
              = Len(games[ret'.gameId].history) + 1
    /\ ( ret'.returned # "state" )
       => \A g \in GameIds : games'[g].history = games[g].history

C7_MoveRecordLength == [](C7_Counted) /\ [][C7_Step]_vars

C7_Witness ==
    /\ ret.returned = "throw"
    /\ accepted[ret.gameId] = 2
    /\ Len(games[ret.gameId].history) = 2

\* C8: a move command for a gameId without a session throws the
\* SessionNotFound error and leaves the map unchanged, so the id still has
\* no session.
C8_SessionNotFound ==
    [][ ( ret'.cmd = "move" /\ ~games[ret'.gameId].live )
        => ( /\ ret'.returned = "throw"
             /\ ret'.error = SessionNotFound
             /\ games' = games ) ]_vars

C8_Witness ==
    /\ ret.cmd = "move"
    /\ ret.error = SessionNotFound
    /\ ~games[ret.gameId].live
    /\ \E g \in GameIds : games[g].live /\ games[g].history # << >>

\* C9: new always returns a GameState and leaves the id with one session at
\* the start position, status ongoing, empty move record, whatever was
\* stored before; a second new in a row changes nothing.
C9_Fresh ==
    ret.cmd = "new"
    => ( /\ ret.returned = "state"
         /\ games[ret.gameId] = Chess(StartNode, << >>)
         /\ ret.status = "ongoing"
         /\ ret.fen = Fen(StartNode)
         /\ ret.pgn = << >> )

C9_Step ==
    ( ret.cmd = "new" /\ ret'.cmd = "new" /\ ret'.gameId = ret.gameId )
    => ( games' = games /\ ret' = ret )

C9_NewReplaces == [](C9_Fresh) /\ [][C9_Step]_vars

C9_Witness ==
    /\ ret.cmd = "new"
    /\ prior \in TerminalStatuses
    /\ games[ret.gameId].live

\* the status the priority checkmate > stalemate > draw > check > ongoing
\* gives a position
PriorityStatus(n) ==
    IF IsCheckmate(n) THEN "checkmate"
    ELSE IF IsStalemate(n) THEN "stalemate"
    ELSE IF IsDraw(n) THEN "draw"
    ELSE IF IsCheck(n) THEN "check"
    ELSE "ongoing"

\* C10: the status returned with an accepted move, and the status
\* getGameStatus computes, follow the priority checkmate > stalemate > draw
\* > check > ongoing.
C10_StatusPriority ==
    ( ret.cmd = "move" /\ ret.returned = "state" )
    => ( /\ ret.status = PriorityStatus(games[ret.gameId].pos)
         /\ GetGameStatus(games[ret.gameId].pos)
                = PriorityStatus(games[ret.gameId].pos) )
(***************************************************************************)
(* Properties of the recommendation pipeline                               *)
(***************************************************************************)
\* C2: whatever the completion call does, the move that process returns for
\* an analyze command is absent or one of the legal moves of the position
\* it was given.
C2_MoveIsLegal ==
    ( req.cmd = "analyze" /\ ~analysis.threw )
    => \/ analysis.recommendedMove = NoMove
       \/ Includes(Moves(Load(req.fen)), analysis.recommendedMove)

C2_Witness ==
    /\ req.cmd = "analyze"
    /\ req.version = "text"
    /\ req.resp.kind = "text"
    /\ FirstMatch(req.resp.words) # NoMove
    /\ ~Includes(Moves(Load(req.fen)), FirstMatch(req.resp.words))
    /\ ~analysis.threw
    /\ analysis.recommendedMove # NoMove
\* the completion call failed to name a legal move: it threw, or its text
\* is empty, holds no move, or holds first a move that is not legal
CompletionError(resp, legalMoves) ==
    \/ resp.kind = "throw"
    \/ TextOf(resp) = << >>
    \/ FirstMatch(TextOf(resp)) = NoMove
    \/ ~Includes(legalMoves, FirstMatch(TextOf(resp)))

\* C12: an analyze whose completion call fails (throws, empty text, no
\* parseable move, illegal move) does not throw to its caller: it returns
\* a result whose move is the one the default move policy selects.
C12_ErrorsBecomeDefaultMove ==
    ( /\ req.cmd = "analyze"
      /\ Load(req.fen) # "none"
      /\ analysis # Pending
      /\ CompletionError(req.resp, Moves(Load(req.fen))) )
    => ( /\ ~analysis.threw
         /\ analysis.recommendedMove = SelectDefaultMove(Moves(Load(req.fen))) )

\* C13: for a position with at least one legal move, analyze returns a
\* move whatever the completion call did.
C13_MoveWheneverLegalMoves ==
    ( /\ req.cmd = "analyze"
      /\ Load(req.fen) # "none"
      /\ analysis # Pending
      /\ Moves(Load(req.fen)) # << >> )
    => ( /\ ~analysis.threw
         /\ analysis.recommendedMove # NoMove )
(***************************************************************************)
(* Properties of the gateway                                               *)
(***************************************************************************)
\* some handler stays suspended at its completion call across the step
StaysSuspended == \E task \in tasks : task \in tasks'

\* C3: at most one move handler is in flight for the session, and while a
\* handler is suspended at its completion call no command is applied to the
\* session.
C3_AtMostOneMove ==
    Cardinality({task \in tasks : task.kind = "move"}) <= 1

C3_LockedWhileSuspended ==
    StaysSuspended => games'[GatewayGame] = games[GatewayGame]

C3_Serialized == [](C3_AtMostOneMove) /\ [][C3_LockedWhileSuspended]_vars

\* C4: when the gateway applies a recommended move, the session is at the
\* position the recommendation was computed for.
C4_AppliedWhereComputed ==
    [][ \A task \in tasks :
          ( /\ task.kind = "move"
            /\ task \notin tasks'
            /\ ret'.cmd = "move"
            /\ ret'.returned = "state"
            /\ games'[GatewayGame] # games[GatewayGame] )
          => task.fen = Fen(games[GatewayGame].pos) ]_vars
(***************************************************************************)
(* Properties of the loops                                                 *)
(***************************************************************************)
\* C11: the read-only commands analyze, chat and hint, and the evaluation
\* at the head of an iteration, leave every stored session as it was,
\* whether the completion call returns a text, an empty text or fails.
C11_ReadOnlyKeepsSessions ==
    [][ cli'.input \in CliCommands \cup {"eval"} => games' = games ]_vars

C11_Witness ==
    /\ cli.input \in CliCommands
    /\ cli.outcome = "threw"
    /\ Len(games[CliGame].history) >= 2
\* the iteration of the match loop taken by the step got as far as a
\* proposal that is a legal move of the position
ProposedLegalMove ==
    /\ match.pc = "loop"
    /\ match'.moveCount = match.moveCount + 1
    /\ match'.proposed # NoMove
    /\ Includes(Moves(games[MatchGame].pos), match'.proposed)

\* the proposal occurs twice or more among the last six moves of the record
RepeatedInLastSix ==
    Occurrences(Slice(games[MatchGame].history, 6), match'.proposed) >= 2

\* C14: when the move proposed by the analysis occurs twice or more among
\* the last six moves of the session's record, the match loop does not play
\* it: it plays the first legal move that differs from it, if there is one.
C14_RepeatedMoveNotPlayed ==
    [][ ( ProposedLegalMove /\ RepeatedInLastSix )
        => LET alternativeMoves ==
                   AlternativeMoves(Moves(games[MatchGame].pos),
                                    match'.proposed)
           IN /\ games'[MatchGame].history
                     # Append(games[MatchGame].history, match'.proposed)
              /\ alternativeMoves # << >>
                     => games'[MatchGame].history
                            = Append(games[MatchGame].history,
                                     alternativeMoves[1]) ]_vars

\* C15: when the repetition guard fires on the proposal and the position
\* has no other legal move, the match loop ends in that iteration without
\* sending any move: the session and its move record stay as they were.
C15_DeadlockStopsWithoutMove ==
    [][ ( /\ ProposedLegalMove
          /\ IsRepetitiveMove(match'.proposed, Pgn(games[MatchGame].history))
          /\ AlternativeMoves(Moves(games[MatchGame].pos), match'.proposed)
                 = << >> )
        => ( /\ match'.pc = "done"
             /\ games' = games ) ]_vars

C15_Witness ==
    /\ match.pc = "done"
    /\ match.repetitive
    /\ match.selected = NoMove
    /\ match.proposed = "Qxd4"
    /\ games[MatchGame].history = <<"e4", "Nxe4", "Qxd4", "Qxd4">>

\* C16: when the match loop is left because the analysis gave no move or
\* because of a repetition without alternative, the result returned names
\* a reason of its own: its endReason is neither 'ongoing' nor a status of
\* the rules of chess.
C16_ExplicitEndReason ==
    ( /\ match.pc = "done"
      /\ match.exit \in {"no-move", "no-alternative"} )
    => ( /\ match.result.endReason # "ongoing"
         /\ match.result.endReason \notin TerminalStatuses )
(***************************************************************************)
(* Properties of the gateway's events                                      *)
(***************************************************************************)
\* the events sent in answer to message k, over all connections
EventsFor(k) ==
    {<<c, i>> \in Conns \X (1..(2 * MaxMsgs)) :
        i <= Len(outbox[c]) /\ outbox[c][i].re = k}

\* the handler of message k has run to its end
Handled(k) == k \in 1..nmsg /\ \A task \in tasks : task.id # k

\* C17: every inbound message, of whatever type and outcome, is answered
\* by exactly one outbound event once its handler has finished.
C17_OneEventPerMessage ==
    \A k \in 1..nmsg : Handled(k) => Cardinality(EventsFor(k)) = 1

\* C18: whatever is thrown while a message is handled (a text that is not
\* JSON, an illegal move, an invalid position, a failed analysis) is
\* answered by one error event on the connection the message came from,
\* and no connection is closed.
C18_Step ==
    /\ open \subseteq open'
    /\ ( lastError' # lastError /\ lastError'.error # "" )
       => \E info \in {lastError'.error, "Internal server error"} :
              outbox' = [outbox EXCEPT ![lastError'.conn] =
                            Append(@, Event("error", info, lastError'.id))]

C18_ErrorsBecomeEvents == [][C18_Step]_vars

\* a connection got an error event and, after it, the answer to a later
\* message
C18_Witness ==
    \E c \in Conns :
        /\ Len(outbox[c]) = 2
        /\ outbox[c][1].type = "error"
        /\ outbox[c][1].re = 1
        /\ outbox[c][2].type = "move"
        /\ outbox[c][2].re = 2

\* a message arrives on a connection that has a handler suspended
StartsWhileSuspended ==
    /\ nmsg' = nmsg + 1
    /\ \E task \in tasks : task.conn = lastError'.conn

\* the events of a connection answer its messages in the order of arrival
EventsInOrder ==
    \A c \in Conns : \A i, j \in 1..Len(outbox[c]) :
        i < j => outbox[c][i].re < outbox[c][j].re

\* C19: on one connection the handler of a message has finished before
\* the handler of the next message starts, so the events of a connection
\* leave in the order in which its messages arrived.
C19_OneMessageAtATime ==
    [](EventsInOrder) /\ [][~StartsWhileSuspended]_vars
(***************************************************************************)
(* Properties of the human turn                                            *)
(***************************************************************************)
\* the terminal loop sent the line typed as a move and the handler threw
CliMoveRejected ==
    /\ cli.pc = "prompt"
    /\ cli'.input = "move"
    /\ ret'.returned = "throw"

\* the gateway sent the move of a message to the handler, which threw
GatewayMoveRejected ==
    /\ nmsg' = nmsg + 1
    /\ lastError'.error \in {IllegalMove, SessionNotFound}

\* C20: a human move the handler rejects does not advance the turn: the
\* session is unchanged and no analysis for an automated move is started;
\* the terminal loop goes back to the head of its loop with its local game
\* unchanged, the gateway answers with an error event.
C20_Step ==
    /\ CliMoveRejected
           => ( /\ games' = games
                /\ cli'.game = cli.game
                /\ cli'.pc = "eval" )
    /\ GatewayMoveRejected
           => ( /\ games' = games
                /\ tasks' = tasks
                /\ currentGame' = currentGame
                /\ outbox' = [outbox EXCEPT ![lastError'.conn] =
                       Append(@, Event("error", lastError'.error, nmsg'))] )

C20_RejectedMoveKeepsTurn == [][C20_Step]_vars

C20_Witness ==
    /\ cli.input = "move"
    /\ cli.outcome = "rejected"
    /\ cli.pc = "eval"
    /\ Len(games[CliGame].history) >= 2
(***************************************************************************)
(* Properties of the turn loops                                            *)
(***************************************************************************)
\* the terminal loop sent the line typed as a move and the handler took it
CliMoveAccepted ==
    /\ cli.pc = "prompt"
    /\ cli'.input = "move"
    /\ cli'.outcome = "accepted"

\* C21: the terminal loop alternates between the human and the automated
\* side: a human move is applied to the session only if the move applied
\* before it, if any, was the automated side's.
C21_TurnsAlternate ==
    [][ CliMoveAccepted => cli.mover # "human" ]_vars

\* the terminal loop asked for the automated side's move and could not apply
\* one: the analysis threw (the processor found no playable move in the
\* response), none was recommended, or the handler rejected the one recommended
CliReplyUnplayable ==
    /\ cli.pc = "thinking"
    /\ cli'.input = "reply"
    /\ cli'.outcome \in {"threw", "none", "rejected"}

\* C22: an automated move that cannot be applied (absent, or rejected) halts
\* the loop for that game: the loop does not go on to the next turn.
C22_UnplayableMoveHalts ==
    [][ CliReplyUnplayable => cli'.pc \notin {"eval", "prompt", "thinking"} ]_vars

\* the move the automated side proposes in a turn of the match is rejected:
\* by the processor's legality test, by validateMove, or by the handler
MatchMoveRejected ==
    /\ match.pc = "loop"
    /\ \/ match'.error = IllegalSuggested
       \/ match'.exit \in {"invalid-move", "move-threw"}

\* C23: when the automated side's move is rejected at validation, the loop
\* invokes the automated side again before giving up: the rejection of the
\* first proposal of a turn leaves the loop running, about to ask again.
C23_RetriesBeforeGivingUp ==
    [][ MatchMoveRejected => match'.pc = "loop" ]_vars

\* the last move command of the terminal loop returned a terminal status
CliGameOver == cli.game.status \notin {"", "ongoing"}

\* C24: once a move command has returned a terminal status the loop has
\* ended the game, and from then on it sends no analysis request and no move
\* command for it: neither the loop nor the session changes any more.
C24_TerminalStatusEndsLoop ==
    /\ [](CliGameOver => cli.pc = "done")
    /\ [][ CliGameOver => (cli' = cli /\ games' = games /\ ret' = ret) ]_vars

\* the automated side's move ended the game
C24_Witness ==
    /\ CliGameOver
    /\ cli.pc = "done"
    /\ cli.mover = "bobby"
    /\ cli.input = "reply"

(***************************************************************************)
(* Properties of concurrent sessions                                       *)
(***************************************************************************)

\* C25: games are independent: whatever command is executed for one game
\* id, the session stored under every other game id is left as it was.
C25_OtherSessionsUntouched ==
    [][ \A b \in GameIds : b # ret'.gameId => games'[b] = games[b] ]_vars

\* two sessions with different games, the last command an accepted move
C25_Witness ==
    /\ \A b \in GameIds : games[b].live
    /\ games["game1"].history # games["game2"].history
    /\ games["game1"].history # << >>
    /\ games["game2"].history # << >>
    /\ ret.cmd = "move"
    /\ ret.returned = "state"

\* the handler of message k of connection c is suspended at its completion
\* call
Suspended(c, k) == \E task \in tasks : task.conn = c /\ task.id = k

\* C26: a completion call that never returns stalls only its own handler:
\* whatever stays pending on the other connection, every message whose
\* handler is suspended on the served connection is processed to completion.
C26_StallIsLocal ==
    \A k \in 1..MaxMsgs :
        Suspended(ServedConn, k) ~> ~Suspended(ServedConn, k)

\* a call of the stalled connection is still pending when a later message
\* of the served connection has been answered
C26_Witness ==
    \E task \in tasks :
        /\ task.conn = StalledConn
        /\ \E i \in 1..Len(outbox[ServedConn]) :
               outbox[ServedConn][i].re > task.id

(***************************************************************************)
(* Properties of failure handling in the loops                             *)
(***************************************************************************)

\* C27: no failure of an analysis, a chat or a position evaluation ends the
\* terminal loop with an error nobody handles: the loop never leaves
\* playChess by a rejection.
C27_LoopNeverCrashes == cli.pc # "crashed"

(***************************************************************************)
(* Properties of the completion call and of the default move               *)
(***************************************************************************)

\* an invocation of process with analyze or chat has returned or thrown
Invoked ==
    /\ req.cmd \in {"analyze", "chat"}
    /\ analysis # Pending

\* C28 as stated: every invocation of process with analyze or chat calls
\* the completion exactly once, whatever the outcome.
C28_ExactlyOnceWhateverOutcome == Invoked => analysis.calls = 1

\* C28: an invocation of process with analyze or chat never calls the
\* completion more than once (a call that throws or returns nothing is not
\* repeated); it calls it exactly once when the position loads, and not at
\* all when the FEN is rejected, which happens before the call.
C28_CompletionCalledOnce ==
    Invoked => analysis.calls = (IF Load(req.fen) = "none" THEN 0 ELSE 1)

\* a completion call that threw was the only one of its invocation
C28_Witness ==
    /\ Invoked
    /\ Load(req.fen) # "none"
    /\ req.resp.kind = "throw"
    /\ analysis.calls = 1

\* the preferred moves that are legal, in the order of the preferred list
PreferredPresent(legalMoves) ==
    SelectSeq(PreferredMoves, LAMBDA m : Includes(legalMoves, m))

\* the free-text processor fell back on the default move policy
DefaultMoveUsed ==
    /\ req.version = "text"
    /\ req.cmd = "analyze"
    /\ Load(req.fen) # "none"
    /\ analysis # Pending
    /\ CompletionError(req.resp, Moves(Load(req.fen)))

\* C29: the default move is the first entry of the preferred list that is
\* legal, and the first legal move when no preferred move is legal; it
\* depends on the list of legal moves only.
C29_DefaultMovePolicy ==
    DefaultMoveUsed =>
        LET legalMoves == Moves(Load(req.fen)) IN
        analysis.recommendedMove =
            (IF PreferredPresent(legalMoves) # << >>
             THEN PreferredPresent(legalMoves)[1]
             ELSE IF legalMoves # << >> THEN legalMoves[1] ELSE NoMove)

\* the default move is a preferred move that is not the first legal move
C29_Witness ==
    /\ DefaultMoveUsed
    /\ PreferredPresent(Moves(Load(req.fen))) # << >>
    /\ analysis.recommendedMove # Moves(Load(req.fen))[1]
    /\ analysis.recommendedMove = "e5"

(***************************************************************************)
(* Properties of the position string                                       *)
(***************************************************************************)

C31_PossibleMovesAreCurrent ==
    ret.returned = "state" =>
        /\ ret.possibleMoves = Moves(games[ret.gameId].pos)
        /\ ( \/ ret.status \in {"checkmate", "stalemate"}
             \/ IsCheckmate(games[ret.gameId].pos)
             \/ IsStalemate(games[ret.gameId].pos) )
           => ret.possibleMoves = << >>

\* an accepted move gave mate, and the moves returned are not those of
\* the position before
C31_Witness ==
    /\ ret.cmd = "move"
    /\ ret.returned = "state"
    /\ ret.status = "checkmate"
    /\ ret.possibleMoves = << >>
    /\ games[ret.gameId].history = <<"a3", "Qh4#">>

(***************************************************************************)
(* Properties of the extraction of the move                                *)
(***************************************************************************)

\* the move a response carries: its structured move field when it has one,
\* otherwise the first algebraic token of its text
CarriedMove(resp) ==
    IF resp.kind = "json" /\ resp.field # NoMove THEN resp.field
    ELSE IF resp.kind = "text" THEN FirstMatch(resp.words)
    ELSE NoMove

\* C32: an analyze whose completion carries a legal move, as a structured
\* move field or else as a token of free text, returns that move.
C32_CarriedMoveIsReturned ==
    ( /\ req.cmd = "analyze"
      /\ Load(req.fen) # "none"
      /\ analysis # Pending
      /\ CarriedMove(req.resp) # NoMove
      /\ Includes(Moves(Load(req.fen)), CarriedMove(req.resp)) )
    => ( /\ ~analysis.threw
         /\ analysis.recommendedMove = CarriedMove(req.resp) )

(***************************************************************************)
(* Properties of the match loop                                            *)
(***************************************************************************)

\* an iteration of the match loop sends a move command to the handler
MatchSubmits ==
    /\ match.pc = "loop"
    /\ match'.moveCount = match.moveCount + 1
    /\ match'.selected # NoMove

\* C33: every move playMatch submits is a legal move of the position the
\* session holds, be it the proposed move or the alternative to a repeated
\* one, and the move command does not fail.
C33_SubmittedMoveIsLegal ==
    [][ MatchSubmits =>
            /\ Includes(Moves(games[MatchGame].pos), match'.selected)
            /\ ret'.returned = "state"
            /\ match'.exit # "move-threw" ]_vars

\* the alternative to a repeated move was submitted and applied
C33_Witness ==
    /\ match.repetitive
    /\ match.selected # NoMove
    /\ match.selected # match.proposed
    /\ ret.cmd = "move"
    /\ ret.returned = "state"

(***************************************************************************)
(* Properties of the gateway's game                                        *)
(***************************************************************************)

\* a connection is opened while the game of an open connection is under way
SecondConnection ==
    /\ open # {}
    /\ open' # open
    /\ games[GatewayGame].live
    /\ games[GatewayGame].history # << >>

\* C34: opening a gateway connection while another connection's game is
\* under way leaves that game's position and move record unchanged.
C34_ConnectionKeepsOtherGame ==
    [][ SecondConnection => games'[GatewayGame] = games[GatewayGame] ]_vars

\* a move command of the gateway is applied and returns a terminal status
GatewayMoveEndsGame ==
    /\ nmsg > 0 \/ nmsg' > 0
    /\ games'[GatewayGame] # games[GatewayGame]
    /\ ret'.cmd = "move"
    /\ ret'.returned = "state"
    /\ ret'.status # "ongoing"

\* C35: whenever a move applied by the gateway, the human's or the
\* automated side's, gives a terminal status, a game_over event carrying
\* that status is sent to the client.
C35_GameOverIsSent ==
    [][ GatewayMoveEndsGame =>
            \E c \in Conns :
                /\ Len(outbox'[c]) = Len(outbox[c]) + 1
                /\ outbox'[c][Len(outbox'[c])].type = "game_over"
                /\ outbox'[c][Len(outbox'[c])].info = ret'.status ]_vars

(***************************************************************************)
(* Properties of the end of a game in the loops                            *)
(***************************************************************************)

\* the terminal loop applies a move, the human's or the automated side's
CliMoveApplied ==
    /\ cli.pc \in {"prompt", "thinking"}
    /\ cli'.input \in {"move", "reply"}
    /\ cli'.outcome = "accepted"

StoredGame(g) ==
    [fen    |-> Fen(games[g].pos),
     pgn    |-> Pgn(games[g].history),
     status |-> IF games[g].history = << >> THEN "ongoing"
                ELSE MoveStatus(games[g].pos)]

CurrentPlayer(f) == IF SideToMove(f) = "w" THEN "Fischer" ELSE "Kasparov"

\* playMatch leaves its loop and returns its result
MatchReturns ==
    /\ match.pc = "loop"
    /\ match'.pc = "done"

\* C38: the result names a player as winner exactly when the final status
\* is checkmate, and that player is the one who made the last move applied;
\* every other end of the loop is a 'Draw'.
C38_WinnerMadeLastMove ==
    [][ MatchReturns =>
            IF match'.game.status = "checkmate"
            THEN /\ match'.selected # NoMove
                 /\ match'.result.winner = CurrentPlayer(match.game.fen)
            ELSE match'.result.winner = "Draw" ]_vars

\* a match won by mate
C38_Witness ==
    /\ match.pc = "done"
    /\ match.game.status = "checkmate"
    /\ match.result.winner = "Kasparov"
    /\ match.selected = "Qh4#"

\* C39: the moves field of the result playMatch returns is the number of
\* moves applied to the session, the length of its move record, whatever
\* the way the loop was left.
C39_MovesCountsAppliedMoves ==
    [][ MatchReturns =>
            match'.result.moves = Len(games'[MatchGame].history) ]_vars

(***************************************************************************)
(* Properties of the processor's command check                             *)
(***************************************************************************)

\* C40: a command for which canHandle returns true is not rejected by
\* process as an invalid command.
C40_HandledCommandIsProcessed ==
    ( /\ analysis # Pending
      /\ CanHandle(req.version, req.cmd) )
    => ~( /\ analysis.threw
          /\ analysis.error = "Invalid command for ChessProcessor" )
====
